---- MODULE Spec2Model ----
(***************************************************************************)
(* Model of the docstring tag parser, the function extractor, the          *)
(* directory scanner, the application/field resolver and the offline /     *)
(* online lineage helper of openmetadata_python_sync.                      *)
(*                                                                         *)
(* Text is modelled as a sequence of lexical tokens.  A token is either a  *)
(* single character (":" "," " " "-" "(" ")" "=" "\n") or a word whose     *)
(* letters the regular expressions of the program treat as a unit          *)
(* ("OpenMetadata", "upstream", an identifier, ...).                       *)
(***************************************************************************)
EXTENDS Integers, Sequences, FiniteSets, TLC

VARIABLES
    \* parse_docstring_for_tags
    docstring,      \* the argument, a token sequence
    refs,           \* the local list `refs`
    result,         \* the returned list
    ppc,            \* position in the function
    \* resolve_application_field
    config,         \* self.config["applications"]
    r_application,  \* argument `application`
    r_field,        \* argument `field`
    resolved,       \* the returned reference
    rpc,            \* position in the function
    \* extract_functions_from_file
    tree,           \* the parsed module
    todo,           \* the deque of ast.walk
    functions,      \* the local list `functions`
    wpc,            \* position in the function
    \* scan_python_files
    candidates,     \* the files root.rglob("*.py") yields
    remaining,      \* the files rglob has not yielded yet
    entries,        \* the local list `entries`
    spc,            \* position in the function
    \* create_openmetadata_entries and OpenMetadataHelper
    mode,           \* "dry_run", "offline" (self.offline) or "online"
    items,          \* the argument `entries`, in the order the loops visit it
    pos,            \* index in items of the next element the loops visit
    pipeline,       \* the local `pipeline`
    task,           \* the local `task`
    requests,       \* self._requests
    logfile,        \* the document at self.requests_path, <<>> when never written
    submitted,      \* the edges the catalog accepted through add_lineage
    error,          \* the client call whose exception left the function
    cpc,            \* position in create_openmetadata_entries
    calls           \* the helper calls made so far (history)

parseVars   == <<docstring, refs, result, ppc>>
resolveVars == <<config, r_application, r_field, resolved, rpc>>
walkVars    == <<tree, todo, functions, wpc>>
scanVars    == <<candidates, remaining, entries, spc>>
syncVars    == <<mode, items, pos, pipeline, task, requests, logfile, submitted,
                 error, cpc, calls>>
vars        == <<parseVars, resolveVars, walkVars, scanVars, syncVars>>

\* ------------------------------------------------------------------------
\* Bounds
\* ------------------------------------------------------------------------
MaxLines == 4

MaxNodes == 4

MaxScanFiles == 3

MaxItems == 4

MaxCalls == 3

\* ------------------------------------------------------------------------
\* str helpers (strip, lower, find, split, splitlines, startswith)
\* ------------------------------------------------------------------------
IsSpace(t) == t \in {" ", "\n"}

Lower(t) ==
    CASE t = "OpenMetadata" -> "openmetadata"
      [] t = "Upstream"     -> "upstream"
      [] OTHER              -> t

LowerStr(s) == [i \in 1..Len(s) |-> Lower(s[i])]

RECURSIVE LStrip(_)
LStrip(s) ==
    IF s = <<>> THEN <<>>
    ELSE IF IsSpace(Head(s)) THEN LStrip(Tail(s)) ELSE s

RECURSIVE RStrip(_)
RStrip(s) ==
    IF s = <<>> THEN <<>>
    ELSE IF IsSpace(s[Len(s)]) THEN RStrip(SubSeq(s, 1, Len(s) - 1)) ELSE s

Strip(s) == RStrip(LStrip(s))

\* str.find: index of the first occurrence of tok, 0 when there is none
\* (Python's -1).
Find(s, tok) ==
    IF \E i \in 1..Len(s) : s[i] = tok
    THEN CHOOSE i \in 1..Len(s) : s[i] = tok /\ \A j \in 1..(i - 1) : s[j] # tok
    ELSE 0

\* str.split(sep): always at least one element.
RECURSIVE Split(_, _)
Split(s, sep) ==
    LET idx == Find(s, sep) IN
    IF idx = 0 THEN <<s>>
    ELSE <<SubSeq(s, 1, idx - 1)>> \o Split(SubSeq(s, idx + 1, Len(s)), sep)

\* str.splitlines: like split on the line break, without a trailing empty
\* element.
SplitLines(s) ==
    LET parts == Split(s, "\n") IN
    IF parts[Len(parts)] = <<>> THEN SubSeq(parts, 1, Len(parts) - 1) ELSE parts

StartsWith(s, prefix) ==
    Len(s) >= Len(prefix) /\ SubSeq(s, 1, Len(prefix)) = prefix

\* ------------------------------------------------------------------------
\* Regular expressions
\* ------------------------------------------------------------------------
UnderlineChars == {"=", "-"}

Directions == {"upstream", "downstream"}

NoMatch == [ok |-> FALSE, direction |-> "", rest |-> <<>>]

\* SECTION_UNDERLINE.match(line): ^[=~`^#*\-]{3,}\s*$
SECTION_UNDERLINE(line) ==
    \E k \in 3..Len(line) :
        /\ \A i \in 1..k : line[i] \in UnderlineChars
        /\ \A i \in (k + 1)..Len(line) : IsSpace(line[i])

\* The tail "\s*(.+)$" of both line patterns: greedy white space, then at
\* least one character; white space is given back when nothing else is left.
RestGroup(s) ==
    IF LStrip(s) # <<>> THEN LStrip(s)
    ELSE IF s # <<>> THEN <<s[Len(s)]>> ELSE <<>>

\* re.match(r"^(?:-\s*)?(upstream|downstream)\s*:\s*(.+)$", line, IGNORECASE)
DirectiveMatch(line) ==
    LET p == IF line # <<>> /\ Head(line) = "-" THEN LStrip(Tail(line)) ELSE line IN
    IF p = <<>> \/ Lower(Head(p)) \notin Directions THEN NoMatch
    ELSE LET q == LStrip(Tail(p)) IN
         IF q = <<>> \/ Head(q) # ":" THEN NoMatch
         ELSE IF RestGroup(Tail(q)) = <<>> THEN NoMatch
         ELSE [ok |-> TRUE, direction |-> Lower(Head(p)), rest |-> RestGroup(Tail(q))]

\* re.match(r"^:openmetadata-(upstream|downstream):\s*(.+)$", line, IGNORECASE)
FieldListMatch(line) ==
    IF /\ Len(line) >= 5
       /\ line[1] = ":"
       /\ Lower(line[2]) = "openmetadata"
       /\ line[3] = "-"
       /\ Lower(line[4]) \in Directions
       /\ line[5] = ":"
       /\ RestGroup(SubSeq(line, 6, Len(line))) # <<>>
    THEN [ok |-> TRUE, direction |-> Lower(line[4]),
          rest |-> RestGroup(SubSeq(line, 6, Len(line)))]
    ELSE NoMatch

\* First index >= i of d holding a token of set S, Len(d) + 1 when none.
RECURSIVE Scan(_, _, _)
Scan(d, i, S) ==
    IF i > Len(d) THEN Len(d) + 1
    ELSE IF d[i] \in S THEN i ELSE Scan(d, i + 1, S)

\* TAG_PATTERN matched at position i of d:
\* openmetadata:(upstream|downstream)\(([^:()]+):([^)]+)\)
\* The result is the index of the closing parenthesis, 0 when no match.
TagMatchEnd(d, i) ==
    IF /\ i + 3 <= Len(d)
       /\ d[i] = "openmetadata"
       /\ d[i + 1] = ":"
       /\ d[i + 2] \in Directions
       /\ d[i + 3] = "("
    THEN LET j == Scan(d, i + 4, {":", "(", ")"}) IN
         IF j > i + 4 /\ j <= Len(d) /\ d[j] = ":"
         THEN LET k == Scan(d, j + 1, {")"}) IN
              IF k > j + 1 /\ k <= Len(d) THEN k ELSE 0
         ELSE 0
    ELSE 0

\* ------------------------------------------------------------------------
\* MetadataRef and _split_app_field
\* ------------------------------------------------------------------------
MetadataRef(direction, application, field) ==
    [direction |-> direction, application |-> application, field |-> field]

NoPair == [ok |-> FALSE, app |-> <<>>, fld |-> <<>>]

_split_app_field(text0) ==
    LET text == Strip(text0)
        idx  == Find(text, ":")
    IN  IF text = <<>> THEN NoPair
        ELSE IF idx = 0 THEN NoPair
        ELSE [ok  |-> TRUE,
              app |-> Strip(SubSeq(text, 1, idx - 1)),
              fld |-> Strip(SubSeq(text, idx + 1, Len(text)))]

\* for part in rest.split(','): parsed = _split_app_field(part);
\* if parsed: refs.append(...)       (a 2-tuple is always true)
RECURSIVE PartsRefs(_, _)
PartsRefs(direction, parts) ==
    IF parts = <<>> THEN <<>>
    ELSE LET parsed == _split_app_field(Head(parts)) IN
         (IF parsed # NoPair
          THEN <<MetadataRef(direction, parsed.app, parsed.fld)>>
          ELSE <<>>) \o PartsRefs(direction, Tail(parts))

\* ------------------------------------------------------------------------
\* _extract_openmetadata_section_lines
\* ------------------------------------------------------------------------
IsHeading(lines, i) ==
    /\ i + 1 <= Len(lines)
    /\ LowerStr(Strip(lines[i])) = <<"openmetadata">>
    /\ SECTION_UNDERLINE(lines[i + 1])

\* the while loop of pattern A, from line j
RECURSIVE SectionBody(_, _)
SectionBody(lines, j) ==
    IF j > Len(lines) THEN <<>>
    ELSE IF j + 1 <= Len(lines) /\ Strip(lines[j]) # <<>>
            /\ SECTION_UNDERLINE(lines[j + 1])
         THEN <<>>
         ELSE <<lines[j]>> \o SectionBody(lines, j + 1)

IsLabel(lines, i) ==
    StartsWith(LowerStr(Strip(lines[i])), <<"openmetadata", ":">>)

\* the while loop of pattern B, from line j
RECURSIVE LabelBody(_, _)
LabelBody(lines, j) ==
    IF j > Len(lines) \/ Strip(lines[j]) = <<>> THEN <<>>
    ELSE <<lines[j]>> \o LabelBody(lines, j + 1)

\* the function with a final "return lines"
_extract_section_lines_whole_text(doc) ==
    LET lines == SplitLines(doc) IN
    IF \E i \in 1..(Len(lines) - 1) : IsHeading(lines, i)
    THEN SectionBody(lines, (CHOOSE i \in 1..(Len(lines) - 1) :
                 IsHeading(lines, i) /\ \A h \in 1..(i - 1) : ~IsHeading(lines, h)) + 2)
    ELSE lines

_extract_openmetadata_section_lines(doc) ==
    LET lines == SplitLines(doc)
        n     == Len(lines)
    IN  IF \E i \in 1..(n - 1) : IsHeading(lines, i)
        THEN LET i == CHOOSE i \in 1..(n - 1) :
                          IsHeading(lines, i) /\ \A h \in 1..(i - 1) : ~IsHeading(lines, h)
             IN  SectionBody(lines, i + 2)
        ELSE IF \E i \in 1..n : IsLabel(lines, i)
        THEN LET i == CHOOSE i \in 1..n :
                          IsLabel(lines, i) /\ \A h \in 1..(i - 1) : ~IsLabel(lines, h)
                 after == SubSeq(lines[i], Find(lines[i], ":") + 1, Len(lines[i]))
             IN  (IF Strip(after) # <<>> THEN <<after>> ELSE <<>>)
                     \o LabelBody(lines, i + 1)
        ELSE <<>>

\* ------------------------------------------------------------------------
\* parse_docstring_for_tags, its three passes and the deduplication
\* ------------------------------------------------------------------------
\* 1) for raw in section_lines
RECURSIVE SectionRefs(_)
SectionRefs(section_lines) ==
    IF section_lines = <<>> THEN <<>>
    ELSE LET line == Strip(Head(section_lines))
             m    == DirectiveMatch(line)
         IN  (IF line # <<>> /\ m.ok
              THEN PartsRefs(m.direction, Split(m.rest, ","))
              ELSE <<>>) \o SectionRefs(Tail(section_lines))

\* 2) for raw in docstring.splitlines()
RECURSIVE FieldListRefs(_)
FieldListRefs(lines) ==
    IF lines = <<>> THEN <<>>
    ELSE LET m == FieldListMatch(Strip(Head(lines))) IN
         (IF m.ok THEN PartsRefs(m.direction, Split(m.rest, ",")) ELSE <<>>)
             \o FieldListRefs(Tail(lines))

\* 3) for match in TAG_PATTERN.finditer(docstring), scanning from index i
RECURSIVE InlineRefs(_, _)
InlineRefs(d, i) ==
    IF i > Len(d) THEN <<>>
    ELSE LET k == TagMatchEnd(d, i) IN
         IF k = 0 THEN InlineRefs(d, i + 1)
         ELSE LET j == Scan(d, i + 4, {":", "(", ")"}) IN
              <<MetadataRef(d[i + 2],
                            Strip(SubSeq(d, i + 4, j - 1)),
                            Strip(SubSeq(d, j + 1, k - 1)))>>
                  \o InlineRefs(d, k + 1)

Key(r) == <<r.direction, r.application, r.field>>

\* unique[key] = r where every assignment appends a value
DictSetAppend(unique, r) == Append(unique, r)

\* unique[key] = r where a known key moves to the end
DictSetMoveToEnd(unique, r) ==
    SelectSeq(unique, LAMBDA u : Key(u) # Key(r)) \o <<r>>

\* unique[key] = r on an insertion-ordered dict, kept as the list of its
\* values: a new key is appended, a known key keeps its position.
DictSet(unique, r) ==
    IF \E i \in 1..Len(unique) : Key(unique[i]) = Key(r)
    THEN [i \in 1..Len(unique) |-> IF Key(unique[i]) = Key(r) THEN r ELSE unique[i]]
    ELSE Append(unique, r)

RECURSIVE Deduplicate(_, _)
Deduplicate(unique, rs) ==
    IF rs = <<>> THEN unique
    ELSE Deduplicate(DictSet(unique, Head(rs)), Tail(rs))

\* ------------------------------------------------------------------------
\* Inputs of the parser: documentation strings of up to MaxLines lines
\* ------------------------------------------------------------------------
LineSet ==
    { <<"OpenMetadata">>,
      <<"=", "=", "=">>,
      <<"upstream", ":", " ", "a", ":", "b">>,
      <<"-", " ", "Upstream", ":", " ", "b", ":", "a", ",", "b", ",", " ", "a", ":">>,
      <<":", "openmetadata", "-", "upstream", ":", " ", "a", ":", "b", ",", " ",
        "openmetadata", ":", "upstream", "(", "a", ":", "b", ")">>,
      <<":", "OpenMetadata", "-", "downstream", ":", " ", ":", "b">>,
      <<"a", " ", "openmetadata", ":", "downstream", "(", " ", "b", ":", "a", ")">>,
      <<"OpenMetadata", ":", " ", "upstream", ":", " ", "a", ":", "b">>,
      <<>>,
      <<" ", "sideways", ":", " ", "a", ":", "b">> }

RECURSIVE Join(_)
Join(lines) ==
    IF lines = <<>> THEN <<>>
    ELSE IF Len(lines) = 1 THEN lines[1]
    ELSE lines[1] \o <<"\n">> \o Join(Tail(lines))

Docstrings ==
    { Join(ls) : ls \in UNION { [1..n -> LineSet] : n \in 0..MaxLines } }

\* ------------------------------------------------------------------------
\* Values of the variables a specification does not use
\* ------------------------------------------------------------------------
ParseIdle ==
    /\ docstring = <<>>
    /\ refs = <<>>
    /\ result = <<>>
    /\ ppc = "idle"

ResolveIdle ==
    /\ config = <<>>
    /\ r_application = ""
    /\ r_field = ""
    /\ resolved = <<>>
    /\ rpc = "idle"

WalkIdle ==
    /\ tree = <<>>
    /\ todo = <<>>
    /\ functions = <<>>
    /\ wpc = "idle"

ScanIdle ==
    /\ candidates = <<>>
    /\ remaining = {}
    /\ entries = <<>>
    /\ spc = "idle"

SyncIdle ==
    /\ mode = "idle"
    /\ items = <<>>
    /\ pos = 0
    /\ pipeline = <<>>
    /\ task = <<>>
    /\ requests = <<>>
    /\ logfile = <<>>
    /\ submitted = <<>>
    /\ error = ""
    /\ cpc = "idle"
    /\ calls = <<>>

\* ------------------------------------------------------------------------
\* parse_docstring_for_tags as a state machine
\* ------------------------------------------------------------------------
InitParse ==
    /\ docstring \in Docstrings
    /\ refs = <<>>
    /\ result = <<>>
    /\ ppc = "start"
    /\ ResolveIdle /\ WalkIdle /\ ScanIdle /\ SyncIdle

\* if not docstring: return []     (None and the empty string alike)
ParseEmpty ==
    /\ ppc = "start"
    /\ docstring = <<>>
    /\ result' = <<>>
    /\ ppc' = "done"
    /\ UNCHANGED <<docstring, refs, resolveVars, walkVars, scanVars, syncVars>>

ParseSection ==
    /\ ppc = "start"
    /\ docstring # <<>>
    /\ refs' = SectionRefs(_extract_openmetadata_section_lines(docstring))
    /\ ppc' = "fieldlist"
    /\ UNCHANGED <<docstring, result, resolveVars, walkVars, scanVars, syncVars>>

ParseFieldList ==
    /\ ppc = "fieldlist"
    /\ refs' = refs \o FieldListRefs(SplitLines(docstring))
    /\ ppc' = "inline"
    /\ UNCHANGED <<docstring, result, resolveVars, walkVars, scanVars, syncVars>>

ParseInline ==
    /\ ppc = "inline"
    /\ refs' = refs \o InlineRefs(docstring, 1)
    /\ ppc' = "dedupe"
    /\ UNCHANGED <<docstring, result, resolveVars, walkVars, scanVars, syncVars>>

ParseDeduplicate ==
    /\ ppc = "dedupe"
    /\ result' = Deduplicate(<<>>, refs)
    /\ ppc' = "done"
    /\ UNCHANGED <<docstring, refs, resolveVars, walkVars, scanVars, syncVars>>

NextParse ==
    \/ ParseEmpty
    \/ ParseSection
    \/ ParseFieldList
    \/ ParseInline
    \/ ParseDeduplicate

SpecParse == InitParse /\ [][NextParse]_vars

\* ------------------------------------------------------------------------
\* Properties of parse_docstring_for_tags
\* ------------------------------------------------------------------------
Range(s) == { s[i] : i \in 1..Len(s) }

DocLines == SplitLines(docstring)

\* the section style of the claims: a title line immediately followed by an
\* underline line
HasSectionHeading ==
    \E i \in 1..(Len(DocLines) - 1) :
        /\ LowerStr(Strip(DocLines[i])) = <<"openmetadata">>
        /\ SECTION_UNDERLINE(DocLines[i + 1])

\* a line that begins ":openmetadata-(upstream|downstream):"
HasFieldListLine ==
    \E i \in 1..Len(DocLines) :
        LET l == LowerStr(Strip(DocLines[i])) IN
        \E d \in Directions : StartsWith(l, <<":", "openmetadata", "-", d, ":">>)

\* an inline tag anywhere in the text
HasInlineTag == \E i \in 1..Len(docstring) : TagMatchEnd(docstring, i) # 0

\* a label line "OpenMetadata: ..."
HasLabelLine ==
    \E i \in 1..Len(DocLines) :
        StartsWith(LowerStr(Strip(DocLines[i])), <<"openmetadata", ":">>)

\* C3: the list parse_docstring_for_tags returns holds no two declarations
\* with the same (direction, application, field) triple.
C3_NoDuplicateTriples ==
    ppc = "done" =>
        \A i, j \in 1..Len(result) : i # j => Key(result[i]) # Key(result[j])

\* a triple written in the section style, the field-list style and the
\* inline style of one string is returned once
C3_Witness ==
    /\ ppc = "done"
    /\ HasSectionHeading
    /\ \E t \in Range(result) :
          /\ t \in Range(SectionRefs(_extract_openmetadata_section_lines(docstring)))
          /\ t \in Range(FieldListRefs(DocLines))
          /\ t \in Range(InlineRefs(docstring, 1))
          /\ Cardinality({ i \in 1..Len(result) : result[i] = t }) = 1
          /\ Cardinality({ i \in 1..Len(refs) : refs[i] = t }) >= 3

\* C4 as stated: a string with no title-and-underline heading, no field-list
\* line and no inline tag yields the empty list.
C4_Original ==
    (ppc = "done" /\ ~HasSectionHeading /\ ~HasFieldListLine /\ ~HasInlineTag)
        => result = <<>>

\* C4 amended: a string with no title-and-underline heading, no
\* "OpenMetadata:" label line, no field-list line and no inline tag yields
\* the empty list; so does the empty string.
C4_NoSyntaxNoTags ==
    (ppc = "done" /\ ~HasSectionHeading /\ ~HasLabelLine
                  /\ ~HasFieldListLine /\ ~HasInlineTag)
        => result = <<>>

\* a non-empty string with a directive line outside any section
C4_Witness ==
    /\ ppc = "done"
    /\ docstring # <<>>
    /\ ~HasSectionHeading /\ ~HasLabelLine /\ ~HasFieldListLine /\ ~HasInlineTag
    /\ \E i \in 1..Len(DocLines) : DirectiveMatch(Strip(DocLines[i])).ok
    /\ result = <<>>

\* C5: every returned declaration has direction upstream or downstream, a
\* non-empty application and a non-empty field.
C5_WellFormedDeclarations ==
    ppc = "done" =>
        \A i \in 1..Len(result) :
            /\ result[i].direction \in Directions
            /\ result[i].application # <<>>
            /\ result[i].field # <<>>

FirstIndex(s, r) == CHOOSE i \in 1..Len(s) : s[i] = r /\ \A j \in 1..(i - 1) : s[j] # r

\* C10: the returned list is in first-occurrence order of the concatenation
\* section style, field-list style, inline style; a later duplicate does not
\* move a triple.
C10_FirstOccurrenceOrder ==
    ppc = "done" =>
        /\ refs = SectionRefs(_extract_openmetadata_section_lines(docstring))
                    \o FieldListRefs(DocLines) \o InlineRefs(docstring, 1)
        /\ Range(result) = Range(refs)
        /\ \A i, j \in 1..Len(result) :
              i < j => FirstIndex(refs, result[i]) < FirstIndex(refs, result[j])

\* two triples, the first of them repeated by a later syntax
C10_Witness ==
    /\ ppc = "done"
    /\ Len(result) >= 2
    /\ \E k \in 1..Len(refs) :
          /\ refs[k] = result[1]
          /\ k > FirstIndex(refs, result[2])
          /\ k > Len(SectionRefs(_extract_openmetadata_section_lines(docstring)))

\* ------------------------------------------------------------------------
\* EntityRef and resolve_application_field
\* ------------------------------------------------------------------------
\* dict.get on a key the mapping does not have, and an unset id
Missing == "<None>"

\* the same for a fully-qualified name, which is a token sequence
MissingFqn == <<Missing>>

\* a fully-qualified name Python treats as false: None or the empty string
Falsy(v) == v \in {MissingFqn, <<>>}

EntityRef(type, fqn) == [type |-> type, fqn |-> fqn, id |-> Missing]

\* the return value None
NoRef == [type |-> Missing, fqn |-> MissingFqn, id |-> Missing]

AppNames == {"billing", "crm"}

FieldNames == {"amount", "total"}

\* One value of the "applications" mapping.  present = FALSE: the name is
\* not a key.  A key whose value has no "type", no "fqn" and no column is
\* the empty mapping.
AppConfigs ==
    [present : {TRUE},
     type    : {Missing, "dashboard"},
     fqn     : {MissingFqn, <<>>, <<"db", ".", "billing">>},
     columns : [FieldNames ->
                   {MissingFqn, <<>>, <<"db", ".", "billing", ".", "amount">>}]]
    \cup
    [present : {FALSE}, type : {Missing}, fqn : {MissingFqn},
     columns : [FieldNames -> {MissingFqn}]]

Configs == [AppNames -> AppConfigs]

\* `not app`: the key is missing or its value is the empty mapping
AppFalsy(app) ==
    \/ ~app.present
    \/ /\ app.type = Missing
       /\ app.fqn = MissingFqn
       /\ \A f \in FieldNames : app.columns[f] = MissingFqn

\* the function with the entity-level fallback tried before the columns
resolve_entity_level_first(apps, application, field) ==
    LET app == apps[application] IN
    IF AppFalsy(app) THEN NoRef
    ELSE IF ~Falsy(app.fqn)
    THEN EntityRef(IF app.type = Missing THEN "table" ELSE app.type, app.fqn)
    ELSE IF ~Falsy(app.columns[field]) THEN EntityRef("column", app.columns[field])
    ELSE NoRef

resolve_application_field(apps, application, field) ==
    LET app     == apps[application]
        col_fqn == app.columns[field]
    IN  IF AppFalsy(app) THEN NoRef
        ELSE IF ~Falsy(col_fqn) THEN EntityRef("column", col_fqn)
        ELSE IF Falsy(app.fqn) THEN NoRef
        ELSE EntityRef(IF app.type = Missing THEN "table" ELSE app.type, app.fqn)

InitResolve ==
    /\ config \in Configs
    /\ r_application \in AppNames
    /\ r_field \in FieldNames
    /\ resolved = NoRef
    /\ rpc = "start"
    /\ ParseIdle /\ WalkIdle /\ ScanIdle /\ SyncIdle

Resolve ==
    /\ rpc = "start"
    /\ resolved' = resolve_application_field(config, r_application, r_field)
    /\ rpc' = "done"
    /\ UNCHANGED <<config, r_application, r_field,
                   parseVars, walkVars, scanVars, syncVars>>

NextResolve == Resolve

SpecResolve == InitResolve /\ [][NextResolve]_vars

\* C2 as stated: absent when the application is not a key; a column
\* reference when the field is a key of the columns; otherwise the declared
\* type ("table" by default) and fqn; absent when no fqn is configured.
C2_Original ==
    rpc = "done" =>
        LET app == config[r_application] IN
        resolved =
            IF ~app.present THEN NoRef
            ELSE IF app.columns[r_field] # MissingFqn
            THEN EntityRef("column", app.columns[r_field])
            ELSE IF app.fqn = MissingFqn THEN NoRef
            ELSE EntityRef(IF app.type = Missing THEN "table" ELSE app.type, app.fqn)

\* C2 amended: absent when the application is not a key; a column reference
\* when the field is a key of the columns with a non-empty fqn; otherwise
\* the declared type ("table" by default) and fqn; absent when the
\* application has no non-empty fqn.
C2_TwoTierPolicy ==
    rpc = "done" =>
        LET app == config[r_application] IN
        resolved =
            IF ~app.present THEN NoRef
            ELSE IF app.columns[r_field] \notin {MissingFqn, <<>>}
            THEN EntityRef("column", app.columns[r_field])
            ELSE IF app.fqn \in {MissingFqn, <<>>} THEN NoRef
            ELSE EntityRef(IF app.type = Missing THEN "table" ELSE app.type, app.fqn)

\* the fallback: a configured application with a mapped column, asked for
\* another field, resolves to its entity
C2_Witness ==
    /\ rpc = "done"
    /\ config[r_application].present
    /\ \E f \in FieldNames : ~Falsy(config[r_application].columns[f])
    /\ Falsy(config[r_application].columns[r_field])
    /\ resolved = EntityRef("table", <<"db", ".", "billing">>)

\* ------------------------------------------------------------------------
\* extract_functions_from_file: ast.parse and ast.walk
\* ------------------------------------------------------------------------
\* The parsed module: block statements 1..n in source order, statement i on
\* line i, node 0 the Module.  parent[i] is the statement (or the Module)
\* whose body holds statement i.
NodeKinds == {"FunctionDef", "AsyncFunctionDef", "If"}

RECURSIVE IsAncestorOrSelf(_, _, _)
IsAncestorOrSelf(parent, a, i) ==
    \/ a = i
    \/ i # 0 /\ IsAncestorOrSelf(parent, a, parent[i])

\* the parent arrays of statements listed in source (pre-)order
IsSourceOrder(parent, n) ==
    \A i \in 1..n :
        /\ parent[i] < i
        /\ i > 1 => IsAncestorOrSelf(parent, parent[i], i - 1)

Trees ==
    UNION { { [n |-> n, parent |-> p, kind |-> k] :
                p \in { q \in [1..n -> 0..(n - 1)] : IsSourceOrder(q, n) },
                k \in [1..n -> NodeKinds] } : n \in 0..MaxNodes }

RECURSIVE SortedSeq(_)
SortedSeq(S) ==
    IF S = {} THEN <<>>
    ELSE LET m == CHOOSE x \in S : \A y \in S : x <= y
         IN  <<m>> \o SortedSeq(S \ {m})

\* ast.iter_child_nodes(node): the child statements, in source order
iter_child_nodes(t, node) == SortedSeq({ i \in 1..t.n : t.parent[i] = node })

\* FunctionEntry: a definition is named by its statement number; docstring
\* and tags are the argument and the result of parse_docstring_for_tags
FunctionEntry(name, lineno) == [name |-> name, lineno |-> lineno]

\* a walk that visits the children of a node before its siblings
ast_walk_depth_first(queue, children) == children \o Tail(queue)

\* ast.walk: node = todo.popleft(); todo.extend(iter_child_nodes(node))
ast_walk(queue, children) == Tail(queue) \o children

InitWalk ==
    /\ tree \in Trees
    /\ todo = <<0>>
    /\ functions = <<>>
    /\ wpc = "walk"
    /\ ParseIdle /\ ResolveIdle /\ ScanIdle /\ SyncIdle

\* isinstance(node, ast.FunctionDef): functions.append(FunctionEntry(...))
WalkFunctionDef ==
    /\ wpc = "walk"
    /\ todo # <<>>
    /\ Head(todo) # 0
    /\ tree.kind[Head(todo)] = "FunctionDef"
    /\ todo' = ast_walk(todo, iter_child_nodes(tree, Head(todo)))
    /\ functions' = Append(functions, FunctionEntry(Head(todo), Head(todo)))
    /\ UNCHANGED <<tree, wpc, parseVars, resolveVars, scanVars, syncVars>>

\* any other node, the Module included
WalkOtherNode ==
    /\ wpc = "walk"
    /\ todo # <<>>
    /\ IF Head(todo) = 0 THEN TRUE ELSE tree.kind[Head(todo)] # "FunctionDef"
    /\ todo' = ast_walk(todo, iter_child_nodes(tree, Head(todo)))
    /\ UNCHANGED <<tree, functions, wpc, parseVars, resolveVars, scanVars, syncVars>>

\* return FileEntry(path=file_path, functions=functions)
WalkReturn ==
    /\ wpc = "walk"
    /\ todo = <<>>
    /\ wpc' = "done"
    /\ UNCHANGED <<tree, todo, functions, parseVars, resolveVars, scanVars, syncVars>>

NextWalk ==
    \/ WalkFunctionDef
    \/ WalkOtherNode
    \/ WalkReturn

SpecWalk == InitWalk /\ [][NextWalk]_vars

FunctionDefs == { i \in 1..tree.n : tree.kind[i] = "FunctionDef" }

RECURSIVE Depth(_, _)
Depth(t, i) == IF i = 0 THEN 0 ELSE 1 + Depth(t, t.parent[i])

ScanFiles == 1..MaxScanFiles

\* what extract_functions_from_file does on a file: it returns, or
\* ast.parse raises SyntaxError, or read_text raises UnicodeDecodeError, or
\* another exception leaves it (OSError from read_text)
Outcomes == {"ok", "SyntaxError", "UnicodeDecodeError", "OSError"}

FileEntry(path) == [path |-> path]

InitScan ==
    /\ candidates \in [ScanFiles -> [dunder : BOOLEAN, outcome : Outcomes]]
    /\ remaining = ScanFiles
    /\ entries = <<>>
    /\ spc = "scan"
    /\ ParseIdle /\ ResolveIdle /\ WalkIdle /\ SyncIdle

\* if path.name.startswith("__"): continue
ScanSkipDunder(p) ==
    /\ spc = "scan"
    /\ p \in remaining
    /\ candidates[p].dunder
    /\ remaining' = remaining \ {p}
    /\ UNCHANGED <<candidates, entries, spc, parseVars, resolveVars, walkVars, syncVars>>

\* entries.append(extract_functions_from_file(path))
ScanAppend(p) ==
    /\ spc = "scan"
    /\ p \in remaining
    /\ ~candidates[p].dunder
    /\ candidates[p].outcome = "ok"
    /\ entries' = Append(entries, FileEntry(p))
    /\ remaining' = remaining \ {p}
    /\ UNCHANGED <<candidates, spc, parseVars, resolveVars, walkVars, syncVars>>

\* a scan without the except clauses
ScanErrorPropagates(p) ==
    /\ spc = "scan"
    /\ p \in remaining
    /\ ~candidates[p].dunder
    /\ candidates[p].outcome \in {"SyntaxError", "UnicodeDecodeError"}
    /\ spc' = "raised"
    /\ remaining' = remaining \ {p}
    /\ UNCHANGED <<candidates, entries, parseVars, resolveVars, walkVars, syncVars>>

\* except SyntaxError / except UnicodeDecodeError: print to stderr
ScanSkipError(p) ==
    /\ spc = "scan"
    /\ p \in remaining
    /\ ~candidates[p].dunder
    /\ candidates[p].outcome \in {"SyntaxError", "UnicodeDecodeError"}
    /\ remaining' = remaining \ {p}
    /\ UNCHANGED <<candidates, entries, spc, parseVars, resolveVars, walkVars, syncVars>>

\* an exception no except clause names leaves scan_python_files
ScanRaise(p) ==
    /\ spc = "scan"
    /\ p \in remaining
    /\ ~candidates[p].dunder
    /\ candidates[p].outcome = "OSError"
    /\ spc' = "raised"
    /\ remaining' = remaining \ {p}
    /\ UNCHANGED <<candidates, entries, parseVars, resolveVars, walkVars, syncVars>>

\* return entries
ScanReturn ==
    /\ spc = "scan"
    /\ remaining = {}
    /\ spc' = "done"
    /\ UNCHANGED <<candidates, remaining, entries, parseVars, resolveVars, walkVars, syncVars>>

NextScan ==
    \/ \E p \in ScanFiles : ScanSkipDunder(p)
    \/ \E p \in ScanFiles : ScanAppend(p)
    \/ \E p \in ScanFiles : ScanSkipError(p)
    \/ \E p \in ScanFiles : ScanRaise(p)
    \/ ScanReturn

SpecScan == InitScan /\ [][NextScan]_vars

\* C7: a file failing with a syntax or decode error is left out and the
\* scan goes on: the returned list has exactly one entry for each file that
\* parses and is not a dunder file, whatever the order of the visit; the
\* scan is only left early by an exception that is neither of the two.
C7_FailedFilesExcluded ==
    /\ spc = "done" =>
          \A p \in ScanFiles :
              Cardinality({ i \in 1..Len(entries) : entries[i] = FileEntry(p) })
                  = IF ~candidates[p].dunder /\ candidates[p].outcome = "ok"
                    THEN 1 ELSE 0
    /\ spc = "raised" =>
          \E p \in ScanFiles \ remaining :
              ~candidates[p].dunder /\ candidates[p].outcome = "OSError"

\* a syntax error and a decode error among the candidates, and a sibling
\* that parses in the result
C7_Witness ==
    /\ spc = "done"
    /\ \E p, q, r \in ScanFiles :
          /\ ~candidates[p].dunder /\ candidates[p].outcome = "SyntaxError"
          /\ ~candidates[q].dunder /\ candidates[q].outcome = "UnicodeDecodeError"
          /\ ~candidates[r].dunder /\ candidates[r].outcome = "ok"
          /\ entries = <<FileEntry(r)>>

\* ------------------------------------------------------------------------
\* OpenMetadataHelper: the offline request log
\* ------------------------------------------------------------------------
\* self._requests after __init__
EmptyRequests == [services |-> <<>>, pipelines |-> <<>>, lineage |-> <<>>]

\* a flush that leaves the lineage array out of the document
_flush_offline_without_lineage(reqs) ==
    <<[services |-> reqs.services, pipelines |-> reqs.pipelines, lineage |-> <<>>]>>

\* _flush_offline: the whole of self._requests replaces the document
_flush_offline(reqs) == <<reqs>>

\* self.config.get("pipelineServiceName", "code-service")
ServiceName == "code-service"

\* str(path).replace("\\", "_").replace("/", "_")
_pipeline_name_for_file(path) ==
    [i \in 1..Len(path) |-> IF path[i] \in {"/", "\\"} THEN "_" ELSE path[i]]

\* the reference ensure_pipeline_for_file builds: fqn = f"{service}.{name}"
PipelineRef(path) ==
    EntityRef("pipeline", <<ServiceName, ".">> \o _pipeline_name_for_file(path))

\* the record ensure_pipeline_for_file appends when offline
PipelineRecord(path) ==
    [action  |-> "ensure",
     service |-> ServiceName,
     name    |-> _pipeline_name_for_file(path),
     file    |-> path]

\* the reference ensure_task_for_function builds:
\* task_fqn = f"{pipeline.fqn}.{func_name}"
TaskRef(pipeline_ref, func_name) ==
    EntityRef("pipelineTask", pipeline_ref.fqn \o <<".", func_name>>)

\* the record ensure_task_for_function appends when offline
TaskRecord(pipeline_ref, path, func_name, lineno) ==
    [action   |-> "ensureTask",
     pipeline |-> pipeline_ref.fqn,
     task     |-> func_name,
     file     |-> path,
     lineno   |-> lineno]

\* the record create_lineage appends when offline; None is NoRef
LineageRecord(from_ref, to_task, from_task, to_ref) ==
    [from     |-> IF from_ref # NoRef THEN from_ref.fqn
                  ELSE IF from_task # NoRef THEN from_task.fqn ELSE MissingFqn,
     fromType |-> IF from_ref # NoRef THEN from_ref.type
                  ELSE IF from_task # NoRef THEN from_task.type ELSE Missing,
     to       |-> IF to_ref # NoRef THEN to_ref.fqn
                  ELSE IF to_task # NoRef THEN to_task.fqn ELSE MissingFqn,
     toType   |-> IF to_ref # NoRef THEN to_ref.type
                  ELSE IF to_task # NoRef THEN to_task.type ELSE Missing]

\* ------------------------------------------------------------------------
\* OpenMetadataHelper.create_lineage against the catalog
\* ------------------------------------------------------------------------
\* index of the last occurrence of tok in s, 0 when there is none
RFind(s, tok) ==
    IF \E i \in 1..Len(s) : s[i] = tok
    THEN CHOOSE i \in 1..Len(s) :
             s[i] = tok /\ \A j \in (i + 1)..Len(s) : s[j] # tok
    ELSE 0

\* task_fqn.rsplit(".", 1)[0]
pipeline_fqn(task_fqn) ==
    IF RFind(task_fqn, ".") = 0 THEN task_fqn
    ELSE SubSeq(task_fqn, 1, RFind(task_fqn, ".") - 1)

\* _entity_ref_from_fqn("pipeline", fqn): None when the lookup finds nothing
_entity_ref_from_fqn(entity_type, fqn, found) ==
    IF found THEN [type |-> entity_type, fqn |-> fqn, id |-> "uuid"] ELSE NoRef

\* from_ref_use and to_ref_use of create_lineage
LineageEnds(from_ref, to_task, from_task, to_ref, found) ==
    [from |-> IF from_task # NoRef /\ from_ref = NoRef
              THEN _entity_ref_from_fqn("pipeline", pipeline_fqn(from_task.fqn), found)
              ELSE from_ref,
     to   |-> IF to_task # NoRef /\ to_ref = NoRef
              THEN _entity_ref_from_fqn("pipeline", pipeline_fqn(to_task.fqn), found)
              ELSE to_ref]

\* the edge of the AddLineageRequest _add_lineage_edge builds
EntitiesEdge(from_ref, to_ref) ==
    [fromEntity |-> [id |-> from_ref.id, type |-> from_ref.type],
     toEntity   |-> [id |-> to_ref.id, type |-> to_ref.type]]

\* ------------------------------------------------------------------------
\* create_openmetadata_entries
\* ------------------------------------------------------------------------
\* The argument `entries`, flattened in the order the three nested loops
\* visit it: a file, then each of its functions followed by its tags.
FilePaths == { <<"a", ".", "py">>, <<"pkg", "/", "b", ".", "py">> }

FileItem(path) == [kind |-> "file", path |-> path]

FuncItem(name, lineno) == [kind |-> "func", name |-> name, lineno |-> lineno]

TagItem(tag) == [kind |-> "tag", tag |-> tag]

SyncTags ==
    { MetadataRef("upstream", "billing", "amount"),
      MetadataRef("downstream", "billing", "amount"),
      MetadataRef("downstream", "billing", "total"),
      MetadataRef("upstream", "crm", "amount") }

ItemValues ==
    { FileItem(p) : p \in FilePaths }
        \cup { FuncItem("load", 1), FuncItem("save", 7) }
        \cup { TagItem(t) : t \in SyncTags }

\* a function belongs to a file and a tag to a function of the current file
IsNested(its) ==
    \A k \in 1..Len(its) :
        /\ its[k].kind = "func" => \E j \in 1..(k - 1) : its[j].kind = "file"
        /\ its[k].kind = "tag" =>
              \E j \in 1..(k - 1) :
                  /\ its[j].kind = "func"
                  /\ \A m \in j..k : its[m].kind # "file"

ItemSeqs ==
    { its \in UNION { [1..n -> ItemValues] : n \in 0..MaxItems } : IsNested(its) }

\* config["applications"] of the run
SyncApplications ==
    [a \in AppNames |->
        IF a = "billing"
        THEN [present |-> TRUE, type |-> Missing, fqn |-> <<"db", ".", "billing">>,
              columns |-> [f \in FieldNames |->
                              IF f = "amount"
                              THEN <<"db", ".", "billing", ".", "amount">>
                              ELSE MissingFqn]]
        ELSE [present |-> FALSE, type |-> Missing, fqn |-> MissingFqn,
              columns |-> [f \in FieldNames |-> MissingFqn]]]

\* the arguments with the two branches exchanged
LineageArgsReversed(tag, ref, task_ref) ==
    IF tag.direction = "downstream"
    THEN [from_ref |-> ref, to_task |-> task_ref, from_task |-> NoRef, to_ref |-> NoRef]
    ELSE [from_ref |-> NoRef, to_task |-> NoRef, from_task |-> task_ref, to_ref |-> ref]

\* if tag.direction == "upstream": create_lineage(from_ref=ref, to_task=task)
\* else: create_lineage(from_task=task, to_ref=ref)
LineageArgs(tag, ref, task_ref) ==
    IF tag.direction = "upstream"
    THEN [from_ref |-> ref, to_task |-> task_ref, from_task |-> NoRef, to_ref |-> NoRef]
    ELSE [from_ref |-> NoRef, to_task |-> NoRef, from_task |-> task_ref, to_ref |-> ref]

Resolved(tag) == resolve_application_field(SyncApplications, tag.application, tag.field)

\* index of the last element of kind `kind` among the first k of its
LastOfKind(its, k, kind) ==
    CHOOSE j \in 1..k :
        its[j].kind = kind /\ \A m \in (j + 1)..k : its[m].kind # kind

\* fe.path of the file the loops are in
CurrentPath == items[LastOfKind(items, pos - 1, "file")].path

InitSync ==
    /\ mode \in {"dry_run", "offline", "online"}
    /\ items \in ItemSeqs
    /\ pos = 1
    /\ pipeline = NoRef
    /\ task = NoRef
    /\ requests = EmptyRequests
    /\ logfile = <<>>
    /\ submitted = <<>>
    /\ error = ""
    /\ cpc = "start"
    /\ calls = <<>>
    /\ ParseIdle /\ ResolveIdle /\ WalkIdle /\ ScanIdle

\* if dry_run: print the summary and return
SyncDryRun ==
    /\ cpc = "start"
    /\ mode = "dry_run"
    /\ cpc' = "done"
    /\ UNCHANGED <<mode, items, pos, pipeline, task, requests, logfile, submitted,
                   error, calls, parseVars, resolveVars, walkVars, scanVars>>

\* client = ensure_openmetadata_client(config)
SyncClient ==
    /\ cpc = "start"
    /\ mode \in {"offline", "online"}
    /\ cpc' = "loop"
    /\ UNCHANGED <<mode, items, pos, pipeline, task, requests, logfile, submitted,
                   error, calls, parseVars, resolveVars, walkVars, scanVars>>

\* _init_client raises RuntimeError: hostPort or jwtToken is missing
SyncClientRaises ==
    /\ cpc = "start"
    /\ mode = "online"
    /\ cpc' = "raised"
    /\ error' = "_init_client"
    /\ UNCHANGED <<mode, items, pos, pipeline, task, requests, logfile, submitted,
                   calls, parseVars, resolveVars, walkVars, scanVars>>

AtItem(kind) ==
    /\ cpc = "loop"
    /\ pos <= Len(items)
    /\ items[pos].kind = kind

\* pipeline = client.ensure_pipeline_for_file(fe.path), offline
SyncPipelineOffline ==
    /\ AtItem("file")
    /\ mode = "offline"
    /\ pipeline' = PipelineRef(items[pos].path)
    /\ requests' = [requests EXCEPT
                       !.pipelines = Append(@, PipelineRecord(items[pos].path))]
    /\ logfile' = _flush_offline(requests')
    /\ pos' = pos + 1
    /\ UNCHANGED <<mode, items, task, submitted, error, cpc, calls,
                   parseVars, resolveVars, walkVars, scanVars>>

\* the same against the catalog: the service request may fail unnoticed, the
\* pipeline request returns the pipeline
SyncPipelineOnline ==
    /\ AtItem("file")
    /\ mode = "online"
    /\ pipeline' = [PipelineRef(items[pos].path) EXCEPT !.id = "uuid"]
    /\ pos' = pos + 1
    /\ UNCHANGED <<mode, items, task, requests, logfile, submitted, error, cpc,
                   calls, parseVars, resolveVars, walkVars, scanVars>>

\* self._client.create_or_update(pipeline_req) raises
SyncPipelineOnlineRaises ==
    /\ AtItem("file")
    /\ mode = "online"
    /\ cpc' = "raised"
    /\ error' = "create_or_update"
    /\ UNCHANGED <<mode, items, pos, pipeline, task, requests, logfile, submitted,
                   calls, parseVars, resolveVars, walkVars, scanVars>>

\* task = client.ensure_task_for_function(pipeline, fe.path, fn.name,
\* fn.lineno), offline
SyncTaskOffline ==
    /\ AtItem("func")
    /\ mode = "offline"
    /\ task' = TaskRef(pipeline, items[pos].name)
    /\ requests' = [requests EXCEPT
                       !.pipelines = Append(@, TaskRecord(pipeline, CurrentPath,
                                                          items[pos].name,
                                                          items[pos].lineno))]
    /\ logfile' = _flush_offline(requests')
    /\ pos' = pos + 1
    /\ UNCHANGED <<mode, items, pipeline, submitted, error, cpc, calls,
                   parseVars, resolveVars, walkVars, scanVars>>

\* the same against the catalog: whether or not the pipeline is found and
\* updated, the task reference is returned
SyncTaskOnline ==
    /\ AtItem("func")
    /\ mode = "online"
    /\ task' = TaskRef(pipeline, items[pos].name)
    /\ pos' = pos + 1
    /\ UNCHANGED <<mode, items, pipeline, requests, logfile, submitted, error, cpc,
                   calls, parseVars, resolveVars, walkVars, scanVars>>

\* self._client.update_entity(current) raises
SyncTaskOnlineRaises ==
    /\ AtItem("func")
    /\ mode = "online"
    /\ cpc' = "raised"
    /\ error' = "update_entity"
    /\ UNCHANGED <<mode, items, pos, pipeline, task, requests, logfile, submitted,
                   calls, parseVars, resolveVars, walkVars, scanVars>>

\* if not ref: print the warning; continue
SyncTagUnmapped ==
    /\ AtItem("tag")
    /\ Resolved(items[pos].tag) = NoRef
    /\ pos' = pos + 1
    /\ UNCHANGED <<mode, items, pipeline, task, requests, logfile, submitted,
                   error, cpc, calls, parseVars, resolveVars, walkVars, scanVars>>

\* client.create_lineage(...), offline
SyncLineageOffline ==
    /\ AtItem("tag")
    /\ mode = "offline"
    /\ Resolved(items[pos].tag) # NoRef
    /\ LET a == LineageArgs(items[pos].tag, Resolved(items[pos].tag), task) IN
       requests' = [requests EXCEPT
                       !.lineage = Append(@, LineageRecord(a.from_ref, a.to_task,
                                                           a.from_task, a.to_ref))]
    /\ logfile' = _flush_offline(requests')
    /\ pos' = pos + 1
    /\ UNCHANGED <<mode, items, pipeline, task, submitted, error, cpc, calls,
                   parseVars, resolveVars, walkVars, scanVars>>

\* client.create_lineage(...) against the catalog: the edge is added
SyncLineageOnline ==
    /\ AtItem("tag")
    /\ mode = "online"
    /\ Resolved(items[pos].tag) # NoRef
    /\ LET a == LineageArgs(items[pos].tag, Resolved(items[pos].tag), task)
           e == LineageEnds(a.from_ref, a.to_task, a.from_task, a.to_ref, TRUE)
       IN  submitted' = Append(submitted, EntitiesEdge(e.from, e.to))
    /\ pos' = pos + 1
    /\ UNCHANGED <<mode, items, pipeline, task, requests, logfile, error, cpc,
                   calls, parseVars, resolveVars, walkVars, scanVars>>

\* the pipeline of the task is not found: if not from_ref_use or not
\* to_ref_use: return
SyncLineageOnlineNotFound ==
    /\ AtItem("tag")
    /\ mode = "online"
    /\ Resolved(items[pos].tag) # NoRef
    /\ LET a == LineageArgs(items[pos].tag, Resolved(items[pos].tag), task)
           e == LineageEnds(a.from_ref, a.to_task, a.from_task, a.to_ref, FALSE)
       IN  e.from = NoRef \/ e.to = NoRef
    /\ pos' = pos + 1
    /\ UNCHANGED <<mode, items, pipeline, task, requests, logfile, submitted,
                   error, cpc, calls, parseVars, resolveVars, walkVars, scanVars>>

\* self._client.add_lineage(req) raises: nothing between _add_lineage_edge
\* and the caller of create_openmetadata_entries catches it
SyncLineageOnlineRaises ==
    /\ AtItem("tag")
    /\ mode = "online"
    /\ Resolved(items[pos].tag) # NoRef
    /\ cpc' = "raised"
    /\ error' = "add_lineage"
    /\ UNCHANGED <<mode, items, pos, pipeline, task, requests, logfile, submitted,
                   calls, parseVars, resolveVars, walkVars, scanVars>>

\* the loops are exhausted
SyncReturn ==
    /\ cpc = "loop"
    /\ pos > Len(items)
    /\ cpc' = "done"
    /\ UNCHANGED <<mode, items, pos, pipeline, task, requests, logfile, submitted,
                   error, calls, parseVars, resolveVars, walkVars, scanVars>>

NextSync ==
    \/ SyncDryRun
    \/ SyncClient
    \/ SyncClientRaises
    \/ SyncPipelineOffline
    \/ SyncPipelineOnline
    \/ SyncPipelineOnlineRaises
    \/ SyncTaskOffline
    \/ SyncTaskOnline
    \/ SyncTaskOnlineRaises
    \/ SyncTagUnmapped
    \/ SyncLineageOffline
    \/ SyncLineageOnline
    \/ SyncLineageOnlineNotFound
    \/ SyncLineageOnlineRaises
    \/ SyncReturn

SpecSync == InitSync /\ [][NextSync]_vars

\* ------------------------------------------------------------------------
\* OpenMetadataHelper used on its own, offline: any sequence of calls
\* ------------------------------------------------------------------------
HelperRefs == { NoRef, EntityRef("column", <<"db", ".", "billing", ".", "amount">>) }

HelperPipelines == { PipelineRef(p) : p \in FilePaths }

HelperTasks == { NoRef, TaskRef(PipelineRef(<<"a", ".", "py">>), "load") }

InitHelper ==
    /\ mode = "offline"
    /\ items = <<>>
    /\ pos = 0
    /\ pipeline = NoRef
    /\ task = NoRef
    /\ requests = EmptyRequests
    /\ logfile = <<>>
    /\ submitted = <<>>
    /\ error = ""
    /\ cpc = "helper"
    /\ calls = <<>>
    /\ ParseIdle /\ ResolveIdle /\ WalkIdle /\ ScanIdle

\* ensure_pipeline_for_file(file_path)
HelperEnsurePipeline(path) ==
    /\ cpc = "helper"
    /\ Len(calls) < MaxCalls
    /\ requests' = [requests EXCEPT !.pipelines = Append(@, PipelineRecord(path))]
    /\ logfile' = _flush_offline(requests')
    /\ pipeline' = PipelineRef(path)
    /\ calls' = Append(calls, [op |-> "ensure_pipeline_for_file", path |-> path])
    /\ UNCHANGED <<mode, items, pos, task, submitted, error, cpc,
                   parseVars, resolveVars, walkVars, scanVars>>

\* ensure_task_for_function(pipeline, file_path, func_name, lineno)
HelperEnsureTask(pipeline_ref, path, func_name, lineno) ==
    /\ cpc = "helper"
    /\ Len(calls) < MaxCalls
    /\ requests' = [requests EXCEPT
                       !.pipelines = Append(@, TaskRecord(pipeline_ref, path,
                                                          func_name, lineno))]
    /\ logfile' = _flush_offline(requests')
    /\ task' = TaskRef(pipeline_ref, func_name)
    /\ calls' = Append(calls, [op |-> "ensure_task_for_function",
                               pipeline |-> pipeline_ref, path |-> path,
                               func_name |-> func_name, lineno |-> lineno])
    /\ UNCHANGED <<mode, items, pos, pipeline, submitted, error, cpc,
                   parseVars, resolveVars, walkVars, scanVars>>

\* create_lineage(from_ref, to_task, from_task, to_ref)
HelperCreateLineage(from_ref, to_task, from_task, to_ref) ==
    /\ cpc = "helper"
    /\ Len(calls) < MaxCalls
    /\ requests' = [requests EXCEPT
                       !.lineage = Append(@, LineageRecord(from_ref, to_task,
                                                           from_task, to_ref))]
    /\ logfile' = _flush_offline(requests')
    /\ calls' = Append(calls, [op |-> "create_lineage",
                               from_ref |-> from_ref, to_task |-> to_task,
                               from_task |-> from_task, to_ref |-> to_ref])
    /\ UNCHANGED <<mode, items, pos, pipeline, task, submitted, error, cpc,
                   parseVars, resolveVars, walkVars, scanVars>>

NextHelper ==
    \/ \E p \in FilePaths : HelperEnsurePipeline(p)
    \/ \E pr \in HelperPipelines, p \in FilePaths :
           HelperEnsureTask(pr, p, "load", 1)
    \/ \E fr, tr \in HelperRefs, tt, ft \in HelperTasks :
           HelperCreateLineage(fr, tt, ft, tr)

SpecHelper == InitHelper /\ [][NextHelper]_vars

\* ------------------------------------------------------------------------
\* Properties of create_openmetadata_entries and of the helper
\* ------------------------------------------------------------------------
\* the task reference T of the function a tag at index k belongs to
TaskOfTag(its, k) ==
    TaskRef(PipelineRef(its[LastOfKind(its, k, "file")].path),
            its[LastOfKind(its, k, "func")].name)

IsResolvableTag(its, k) == its[k].kind = "tag" /\ Resolved(its[k].tag) # NoRef

\* the edge R -> T of an upstream tag, T -> R of a downstream tag, as a
\* record of the offline log
EdgeOfTag(its, k) ==
    LET R == Resolved(its[k].tag)
        T == TaskOfTag(its, k)
    IN  IF its[k].tag.direction = "upstream"
        THEN [from |-> R.fqn, fromType |-> R.type, to |-> T.fqn, toType |-> T.type]
        ELSE [from |-> T.fqn, fromType |-> T.type, to |-> R.fqn, toType |-> R.type]

\* the same edge as the catalog receives it, the task replaced by its pipeline
CatalogEdgeOfTag(its, k) ==
    LET R == [id |-> Missing, type |-> Resolved(its[k].tag).type]
        P == [id |-> "uuid", type |-> "pipeline"]
    IN  IF its[k].tag.direction = "upstream"
        THEN [fromEntity |-> R, toEntity |-> P]
        ELSE [fromEntity |-> P, toEntity |-> R]

\* the edges of the resolvable tags among the first n elements, in order
RECURSIVE EdgesUpTo(_, _, _)
EdgesUpTo(its, n, catalog) ==
    IF n = 0 THEN <<>>
    ELSE EdgesUpTo(its, n - 1, catalog) \o
         (IF IsResolvableTag(its, n)
          THEN <<IF catalog THEN CatalogEdgeOfTag(its, n) ELSE EdgeOfTag(its, n)>>
          ELSE <<>>)

RECURSIVE IsSubsequence(_, _)
IsSubsequence(s, t) ==
    IF s = <<>> THEN TRUE
    ELSE IF t = <<>> THEN FALSE
    ELSE IF Head(s) = Head(t) THEN IsSubsequence(Tail(s), Tail(t))
    ELSE IsSubsequence(s, Tail(t))

LoggedLineage == IF logfile = <<>> THEN <<>> ELSE logfile[1].lineage

C8_EdgeFailureDoesNotHalt ==
    (mode = "online" /\ error = "add_lineage" /\ cpc \in {"done", "raised"}) =>
        \A k \in (pos + 1)..Len(items) : ~IsResolvableTag(items, k)

\* the record a call appends to the log
RecordOfCall(c) ==
    IF c.op = "ensure_pipeline_for_file"
    THEN [action |-> "ensure", service |-> "code-service",
          name |-> _pipeline_name_for_file(c.path), file |-> c.path]
    ELSE IF c.op = "ensure_task_for_function"
    THEN [action |-> "ensureTask", pipeline |-> c.pipeline.fqn,
          task |-> c.func_name, file |-> c.path, lineno |-> c.lineno]
    ELSE LineageRecord(c.from_ref, c.to_task, c.from_task, c.to_ref)

RecordsOf(cs) == [i \in 1..Len(cs) |-> RecordOfCall(cs[i])]

\* C9: offline, after any sequence of calls the document is the whole
\* history: pipelines holds the records of the ensure calls in call order,
\* lineage those of the create_lineage calls, services is empty.
C9_LogIsSnapshot ==
    (cpc = "helper" /\ calls # <<>>) =>
        logfile = <<[services  |-> <<>>,
                     pipelines |-> RecordsOf(SelectSeq(calls,
                                       LAMBDA c : c.op # "create_lineage")),
                     lineage   |-> RecordsOf(SelectSeq(calls,
                                       LAMBDA c : c.op = "create_lineage"))]>>

\* a lineage call followed by ensure calls: the earlier record is kept
C9_Witness ==
    /\ cpc = "helper"
    /\ Len(calls) >= 3
    /\ calls[1].op = "create_lineage"
    /\ calls[2].op = "ensure_pipeline_for_file"
    /\ calls[3].op = "ensure_task_for_function"
    /\ Len(logfile[1].lineage) = 1
    /\ Len(logfile[1].pipelines) = 2

====
